---------------------------- MODULE Spec2Model ----------------------------
(***************************************************************************)
(* Model of the inventory manager of App/New/inventory.py: the Item Store  *)
(* (items), the Sorted Index (items_sorted) and the Category Tree          *)
(* (category_tree), with one action per public method of InventoryManager. *)
(*                                                                         *)
(* Strings are sequences of character codes, so that str.lower() and the   *)
(* lexicographic comparison of Python strings are computed, not assumed.   *)
(* List positions stored in the program (items_sorted[k][1]) are 0-based   *)
(* as in the program; TLA+ sequences are 1-based, hence the "+ 1" at each  *)
(* subscript.                                                              *)
(***************************************************************************)
EXTENDS Integers, Sequences, FiniteSets, TLC

(***************************************************************************)
(* Bounds of the model.                                                    *)
(***************************************************************************)
\* The number of InventoryItem objects added over a run: of the full manager,
\* of the item store under add/remove alone, and of the item store under
\* add/remove and sorting.
MgrMaxCreated == 2
MaxCreated == 4
SortMaxCreated == 3
\* ... and of the item store under add, edit and sorting.
EditMaxCreated == 2
\* ... and of the category tree under add_category and item operations.
TreeMaxCreated == 2
\* ... and of the manager under loading, where each loaded item is a new
\* object.
LoadMaxCreated == 5
ShowMaxCreated == 2
\* Longest list given to the heap_sort of heap-sort.py, and its values.
HeapMaxLen == 4
HeapValues == 1..3
\* Most _Node objects allocated for two queues.
ConcatMaxNodes == 3
\* Most _Node objects allocated, and the elements enqueued.
QueueMaxNodes == 4
QueueElements == { 1, 2 }

(***************************************************************************)
(* Inputs.  Item names "a", "B", "b", "C": "B" and "b" are equal ignoring  *)
(* case, and "B" < "a" as raw strings while "a" < "b" lowered.  Category   *)
(* names are "F" (70), "f" (102) and "L" (76).                             *)
(***************************************************************************)
Names == { <<97>>, <<66>>, <<98>>, <<67>> }
Quantities == { 1 }
Prices == { 1 }

\* The (name, quantity, price) a caller constructs an item from: every valid
\* combination, and one invalid value of each field.
ItemInputs ==
  (Names \X Quantities \X Prices)
    \cup { << <<>>, 1, 1 >>, << <<97>>, -1, 1 >>, << <<97>>, 1, -1 >> }

\* Python's None where a category path is expected (edit_item's default
\* argument; item.category_path after such an edit).  It is a value no list
\* of category names is equal to.
NonePath == << <<0>> >>

\* An Optional[int] / Optional[float] argument is <<>> for None and <<v>>
\* for the value v.

\* The sort keys, as typed by the caller: "name", "date", "quantity",
\* "price", "category", and two more inputs, "Price" and "x".
KeyName == <<110, 97, 109, 101>>
KeyDate == <<100, 97, 116, 101>>
KeyQuantity == <<113, 117, 97, 110, 116, 105, 116, 121>>
KeyPrice == <<112, 114, 105, 99, 101>>
KeyCategory == <<99, 97, 116, 101, 103, 111, 114, 121>>
KeyPriceCap == <<80, 114, 105, 99, 101>>
KeyBogus == <<120>>
\* sort_key_map with an entry for every key a caller types.
AnyKey == { KeyName, KeyDate, KeyQuantity, KeyPrice, KeyCategory, KeyBogus }
ValidKeys == { KeyName, KeyDate, KeyQuantity, KeyPrice, KeyCategory }
SortKeys == ValidKeys \cup { KeyPriceCap, KeyBogus }

\* CategoryNode("ROOT")
RootName == <<82, 79, 79, 84>>

VARIABLES
  items,          \* self.items: list of item objects
  items_sorted,   \* self.items_sorted: list of [name, position in items]
  sorted_by,      \* self.sorted_by
  category_tree,  \* self.category_tree: path of a node |-> the node
  created,        \* number of InventoryItem objects constructed so far
  last,           \* the last call: operation, arguments, outcome, output
  list,           \* the list the heap_sort of heap-sort.py is given
  objects,        \* the _Node objects allocated so far
  Q1,             \* a LinkedQueue
  pending,        \* the elements enqueued on Q1 and not yet dequeued, oldest first
  Q2,             \* another LinkedQueue
  pending2,       \* the elements enqueued on Q2 and not yet dequeued or moved
  walk            \* the loop of a display in progress, iteration by iteration

vars ==
  << items, items_sorted, sorted_by, category_tree, created, last,
     list, objects, Q1, pending, Q2, pending2, walk >>

\* What the manager does not touch.
standalone == << list, objects, Q1, pending, Q2, pending2, walk >>

(***************************************************************************)
(* Strings.                                                                *)
(***************************************************************************)
\* str.lower() on ASCII.
Lower(s) == [ i \in 1..Len(s) |-> IF s[i] >= 65 /\ s[i] <= 90 THEN s[i] + 32 ELSE s[i] ]

Min(a, b) == IF a < b THEN a ELSE b

\* a < b on Python strings: lexicographic by code point.
StrLess(a, b) ==
  \E k \in 0..Min(Len(a), Len(b)) :
     /\ \A i \in 1..k : a[i] = b[i]
     /\ k < Len(b)
     /\ (k = Len(a) \/ a[k + 1] < b[k + 1])

\* ' > '.join(path)
RECURSIVE Join(_)
Join(path) ==
  IF Len(path) = 0 THEN <<>>
  ELSE IF Len(path) = 1 THEN path[1]
  ELSE path[1] \o <<32, 62, 32>> \o Join(Tail(path))

(***************************************************************************)
(* Python lists.                                                           *)
(***************************************************************************)
\* lst.pop(i), 0 <= i < len(lst): the list without its element at index i.
ListPop(lst, i) == SubSeq(lst, 1, i) \o SubSeq(lst, i + 2, Len(lst))

\* lst.insert(i, x): a negative i counts from the end, and the index is
\* clamped to the list.
ListInsert(lst, i, x) ==
  LET j == IF i < 0 THEN (IF Len(lst) + i < 0 THEN 0 ELSE Len(lst) + i)
           ELSE IF i > Len(lst) THEN Len(lst) ELSE i
  IN  SubSeq(lst, 1, j) \o <<x>> \o SubSeq(lst, j + 1, Len(lst))

\* lst.remove(x) for an x that occurs in lst: drops its first occurrence.
ListRemove(lst, x) ==
  LET k == CHOOSE k \in 1..Len(lst) : lst[k] = x /\ \A j \in 1..(k - 1) : lst[j] # x
  IN  ListPop(lst, k - 1)

Range(s) == { s[i] : i \in 1..Len(s) }

(***************************************************************************)
(* The category tree.  A node is identified by the list of node names that *)
(* leads to it from the root; category_tree maps that list to the node's   *)
(* fields: name, children (the children's names, in list order) and items  *)
(* (references to item objects, held as the objects' identities).          *)
(***************************************************************************)
CategoryNode(name) == [ name |-> name, children |-> <<>>, items |-> <<>> ]

NodeIds == DOMAIN category_tree

\* The result of find_category_node: a node, or None.
NoNode == [ found |-> FALSE, node |-> <<>> ]
SomeNode(n) == [ found |-> TRUE, node |-> n ]

\* The loop of find_category_node comparing names as they are written.
RECURSIVE FindFromExact(_, _, _)
FindFromExact(tree, current_node, path) ==
  IF Len(path) = 0 THEN SomeNode(current_node)
  ELSE LET kids == tree[current_node].children
           hits == { k \in 1..Len(kids) : kids[k] = path[1] }
       IN  IF hits = {} THEN NoNode
           ELSE LET k == CHOOSE k \in hits : \A j \in hits : k <= j
                IN  FindFromExact(tree, Append(current_node, kids[k]), Tail(path))

\* The for loop of find_category_node from current_node over the segments.
RECURSIVE FindFrom(_, _, _)
FindFrom(tree, current_node, path) ==
  IF Len(path) = 0 THEN SomeNode(current_node)
  ELSE LET kids == tree[current_node].children
           hits == { k \in 1..Len(kids) : Lower(kids[k]) = Lower(path[1]) }
       IN  IF hits = {} THEN NoNode
           ELSE LET k == CHOOSE k \in hits : \A j \in hits : k <= j
                IN  FindFrom(tree, Append(current_node, kids[k]), Tail(path))

find_category_node(tree, path) ==
  IF path = NonePath \/ path = <<>> THEN SomeNode(<<>>)
  ELSE FindFrom(tree, <<>>, path)

(***************************************************************************)
(* LinkedQueue.  A reference to a _Node is its number in the sequence of   *)
(* the nodes allocated so far, None is 0; a queue object is its _head,     *)
(* _tail and _size.                                                        *)
(***************************************************************************)
None == 0

\* LinkedQueue._Node(element, next)
_Node(element, next) == [ _element |-> element, _next |-> next ]

\* LinkedQueue(): the empty queue.
LinkedQueue == [ _head |-> None, _tail |-> None, _size |-> 0 ]

\* The nodes allocated and a queue object after a call, with what the call
\* returned or raised.
Allocated(nodes, Q) == [ nodes |-> nodes, Q |-> Q ]
Returned(nodes, Q, res, answer) == [ nodes |-> nodes, Q |-> Q, res |-> res, answer |-> answer ]

len(Q) == Q._size

is_empty(Q) == Q._size = 0

first(nodes, Q) ==
  IF is_empty(Q) THEN Returned(nodes, Q, "Empty", None)
  ELSE IF Q._head = None THEN Returned(nodes, Q, "AttributeError", None)
  ELSE Returned(nodes, Q, "ok", nodes[Q._head]._element)

\* dequeue without its test for the empty queue.
dequeue_unguarded(nodes, Q) ==
  IF Q._head = None THEN Returned(nodes, Q, "AttributeError", None)
  ELSE LET answer == nodes[Q._head]._element
           shorter == [ Q EXCEPT !._head = nodes[Q._head]._next, !._size = @ - 1 ]
       IN  Returned(nodes,
                    IF is_empty(shorter) THEN [ shorter EXCEPT !._tail = None ] ELSE shorter,
                    "ok", answer)

\* dequeue with the decrement of _size left out.
dequeue_unsized(nodes, Q) ==
  IF is_empty(Q) THEN Returned(nodes, Q, "Empty", None)
  ELSE IF Q._head = None THEN Returned(nodes, Q, "AttributeError", None)
  ELSE Returned(nodes, [ Q EXCEPT !._head = nodes[Q._head]._next ], "ok",
                nodes[Q._head]._element)

dequeue(nodes, Q) ==
  IF is_empty(Q) THEN Returned(nodes, Q, "Empty", None)
  ELSE IF Q._head = None THEN Returned(nodes, Q, "AttributeError", None)
  ELSE LET answer == nodes[Q._head]._element
           shorter == [ Q EXCEPT !._head = nodes[Q._head]._next, !._size = @ - 1 ]
       IN  Returned(nodes,
                    IF is_empty(shorter) THEN [ shorter EXCEPT !._tail = None ] ELSE shorter,
                    "ok", answer)

enqueue(nodes, Q, e) ==
  LET newest == Len(nodes) + 1
      nodes1 == Append(nodes, _Node(e, None))
  IN  IF is_empty(Q)
      THEN Returned(nodes1, [ Q EXCEPT !._head = newest, !._tail = newest, !._size = @ + 1 ],
                    "ok", None)
      ELSE IF Q._tail = None THEN Returned(nodes1, Q, "AttributeError", None)
      ELSE Returned([ nodes1 EXCEPT ![Q._tail]._next = newest ],
                    [ Q EXCEPT !._tail = newest, !._size = @ + 1 ], "ok", None)

\* self.concatenate(Q2), self being Q and Q2 being other: a queue apart
\* from self.  The last line, Q2.__init__(), empties other.
Concatenated(nodes, Q, other, res) == [ nodes |-> nodes, Q |-> Q, other |-> other, res |-> res ]

concatenate(nodes, Q, other) ==
  IF is_empty(Q)
  THEN Concatenated(nodes,
                    [ _head |-> other._head, _tail |-> other._tail, _size |-> other._size ],
                    LinkedQueue, "ok")
  ELSE IF Q._tail = None THEN Concatenated(nodes, Q, other, "AttributeError")
  ELSE Concatenated([ nodes EXCEPT ![Q._tail]._next = other._head ],
                    [ Q EXCEPT !._tail = other._tail, !._size = @ + other._size ],
                    LinkedQueue, "ok")

(***************************************************************************)
(* The sorted index.                                                       *)
(***************************************************************************)
NotFound == [ found |-> FALSE, index |-> -1, sorted_index |-> -1 ]

\* The while loop of binary_search.
RECURSIVE BinarySearchLoop(_, _, _, _)
BinarySearchLoop(sorted, target, left, right) ==
  IF left > right THEN NotFound
  ELSE LET mid == (left + right) \div 2
           current_name == Lower(sorted[mid + 1][1])
       IN  IF current_name = target
           THEN [ found |-> TRUE, index |-> sorted[mid + 1][2], sorted_index |-> mid ]
           ELSE IF StrLess(current_name, target)
           THEN BinarySearchLoop(sorted, target, mid + 1, right)
           ELSE BinarySearchLoop(sorted, target, left, mid - 1)

binary_search(sorted, name) ==
  BinarySearchLoop(sorted, Lower(name), 0, Len(sorted) - 1)

\* The while loop of binary_insertion.
RECURSIVE BinaryInsertionLoop(_, _, _, _)
BinaryInsertionLoop(sorted, target, left, right) ==
  IF left > right THEN left
  ELSE LET mid == (left + right) \div 2
           current_name == Lower(sorted[mid + 1][1])
       IN  IF current_name = target THEN -1
           ELSE IF StrLess(current_name, target)
           THEN BinaryInsertionLoop(sorted, target, mid + 1, right)
           ELSE BinaryInsertionLoop(sorted, target, left, mid - 1)

binary_insertion(sorted, name) ==
  BinaryInsertionLoop(sorted, Lower(name), 0, Len(sorted) - 1)

\* get_item_by_name: the position of the item in items, or -1 for None.
get_item_by_name(sorted, name) == binary_search(sorted, name).index

\* get_item_by_name of the old manager, a scan of the store from its start:
\* the position of the first item of that name ignoring case, or -1 for None.
RECURSIVE ScanFrom(_, _, _)
ScanFrom(its, name, k) ==
  IF k > Len(its) THEN -1
  ELSE IF Lower(its[k].name) = Lower(name) THEN k - 1
  ELSE ScanFrom(its, name, k + 1)

get_item_by_name_old(its, name) == ScanFrom(its, name, 1)

(***************************************************************************)
(* The record of the last call.                                            *)
(***************************************************************************)
\* op: the method called; res: "ok", the error it reported, or the exception
\* it raised; arg: "None", "empty" or "path" for the category path argument
\* of edit_item, the path given to find_category_node ("" for the other
\* methods); out: what display_inventory listed, the node
\* find_category_node returned.
Call(op, res, arg, out) == [ op |-> op, res |-> res, arg |-> arg, out |-> out ]

\* A loop of display_category_tree ("stack") or of the filtered
\* display_inventory ("queue") between two iterations: the node it started
\* from, its stack of (node, level) pairs or its queue next_nodes and
\* current_node, the nodes taken so far, and what it printed or gathered so
\* far.  at is "idle" when no display was called yet and "done" when the
\* loop has ended.
Walk(at, start, stack, next_nodes, current_node, taken, lines) ==
  [ at |-> at, start |-> start, stack |-> stack, next_nodes |-> next_nodes,
    current_node |-> current_node, taken |-> taken, lines |-> lines ]

NoWalk == Walk("idle", <<>>, <<>>, Allocated(<<>>, LinkedQueue), <<>>, <<>>, <<>>)

Init ==
  /\ items = <<>>
  /\ items_sorted = <<>>
  /\ sorted_by = <<>>
  /\ category_tree = ( <<>> :> CategoryNode(RootName) )
  /\ created = 0
  /\ last = Call("init", "ok", "", <<>>)
  /\ list = <<>>
  /\ objects = <<>>
  /\ Q1 = LinkedQueue
  /\ pending = <<>>
  /\ Q2 = LinkedQueue
  /\ pending2 = <<>>
  /\ walk = NoWalk

(***************************************************************************)
(* add_category(path)                                                      *)
(***************************************************************************)
\* add_category without its search for a sibling of the same name.
add_category_any(path) ==
  LET parent_path == SubSeq(path, 1, Len(path) - 1)
      new_category_name == path[Len(path)]
      parent == find_category_node(category_tree, parent_path)
  IN
  /\ UNCHANGED << items, items_sorted, sorted_by, created >>
  /\ UNCHANGED standalone
  /\ IF path = <<>>
     THEN /\ last' = Call("add_category", "empty_path", "", <<>>)
          /\ UNCHANGED category_tree
     ELSE IF ~ parent.found
     THEN /\ last' = Call("add_category", "parent_not_found", "", <<>>)
          /\ UNCHANGED category_tree
     ELSE /\ category_tree' =
               ( [ category_tree EXCEPT ![parent.node].children = Append(@, new_category_name) ]
                 @@ ( Append(parent.node, new_category_name) :> CategoryNode(new_category_name) ) )
          /\ last' = Call("add_category", "ok", "", <<>>)

\* add_category putting the new child first among its siblings.
add_category_first(path) ==
  LET parent_path == SubSeq(path, 1, Len(path) - 1)
      new_category_name == path[Len(path)]
      parent == find_category_node(category_tree, parent_path)
  IN
  /\ UNCHANGED << items, items_sorted, sorted_by, created >>
  /\ UNCHANGED standalone
  /\ IF path = <<>>
     THEN /\ last' = Call("add_category", "empty_path", "", <<>>)
          /\ UNCHANGED category_tree
     ELSE IF ~ parent.found
     THEN /\ last' = Call("add_category", "parent_not_found", "", <<>>)
          /\ UNCHANGED category_tree
     ELSE IF \E k \in 1..Len(category_tree[parent.node].children) :
                Lower(category_tree[parent.node].children[k]) = Lower(new_category_name)
     THEN /\ last' = Call("add_category", "duplicate_category", "", <<>>)
          /\ UNCHANGED category_tree
     ELSE /\ category_tree' =
               ( [ category_tree EXCEPT ![parent.node].children = << new_category_name >> \o @ ]
                 @@ ( Append(parent.node, new_category_name) :> CategoryNode(new_category_name) ) )
          /\ last' = Call("add_category", "ok", "", <<>>)

add_category(path) ==
  LET parent_path == SubSeq(path, 1, Len(path) - 1)
      new_category_name == path[Len(path)]
      parent == find_category_node(category_tree, parent_path)
  IN
  /\ UNCHANGED << items, items_sorted, sorted_by, created >>
  /\ UNCHANGED standalone
  /\ IF path = <<>>
     THEN /\ last' = Call("add_category", "empty_path", "", <<>>)
          /\ UNCHANGED category_tree
     ELSE IF ~ parent.found
     THEN /\ last' = Call("add_category", "parent_not_found", "", <<>>)
          /\ UNCHANGED category_tree
     ELSE IF \E k \in 1..Len(category_tree[parent.node].children) :
                Lower(category_tree[parent.node].children[k]) = Lower(new_category_name)
     THEN /\ last' = Call("add_category", "duplicate_category", "", <<>>)
          /\ UNCHANGED category_tree
     ELSE /\ category_tree' =
               ( [ category_tree EXCEPT ![parent.node].children = Append(@, new_category_name) ]
                 @@ ( Append(parent.node, new_category_name) :> CategoryNode(new_category_name) ) )
          /\ last' = Call("add_category", "ok", "", <<>>)

(***************************************************************************)
(* Items.  An InventoryItem object is a record; id is the object's         *)
(* identity (the k-th object constructed), which is what the lists of the  *)
(* tree nodes refer to.  date_added is datetime.now() at construction,     *)
(* modelled by the construction count.                                     *)
(***************************************************************************)
InventoryItem(id, name, quantity, price, category_path) ==
  [ id |-> id, name |-> name, quantity |-> quantity, price |-> price,
    category_path |-> category_path, date_added |-> id ]

\* InventoryItem.__init__ raises ValueError
InvalidItem(name, quantity, price) == name = <<>> \/ quantity < 0 \/ price < 0

\* get_item_by_name as used by the callers: "none" when binary_search
\* returns -1, "IndexError" when self.items[index] is out of range, else
\* "item" and the item's position.
GetItem(its, sorted, name) ==
  LET index == get_item_by_name(sorted, name)
  IN  IF index = -1 THEN [ res |-> "none", index |-> -1 ]
      ELSE IF index >= Len(its) THEN [ res |-> "IndexError", index |-> index ]
      ELSE [ res |-> "item", index |-> index ]

(***************************************************************************)
(* add_item(InventoryItem(name, quantity, price, category_path))           *)
(***************************************************************************)
add_item(name, quantity, price, category_path) ==
  LET got == GetItem(items, items_sorted, name)
      category_node == find_category_node(category_tree, category_path)
      item == InventoryItem(created + 1, name, quantity, price, category_path)
      sorted_index == binary_insertion(items_sorted, name)
      new_item == << name, Len(items) >>
      fail(res) == /\ last' = Call("add_item", res, "", <<>>)
                   /\ UNCHANGED << items, items_sorted, category_tree, created >>
  IN
  /\ UNCHANGED sorted_by
  /\ UNCHANGED standalone
  /\ IF InvalidItem(name, quantity, price) THEN fail("ValueError")
     ELSE IF got.res = "IndexError" THEN fail("IndexError")
     ELSE IF got.res = "item" THEN fail("duplicate_item")
     ELSE IF category_path # <<>> /\ ~ category_node.found THEN fail("category_not_found")
     ELSE /\ items' = Append(items, item)
          /\ category_tree' =
               IF category_path # <<>>
               THEN [ category_tree EXCEPT ![category_node.node].items = Append(@, item.id) ]
               ELSE category_tree
          /\ items_sorted' = ListInsert(items_sorted, sorted_index, new_item)
          /\ created' = created + 1
          /\ last' = Call("add_item", "ok", "", <<>>)

(***************************************************************************)
(* remove_item(name)                                                       *)
(***************************************************************************)
\* Renumber without its renumbering loop.
RenumberNone(sorted, index) == sorted

\* The loop that renumbers the index after the removal of position index.
Renumber(sorted, index) ==
  [ k \in 1..Len(sorted) |->
      IF sorted[k][2] > index THEN << sorted[k][1], sorted[k][2] - 1 >> ELSE sorted[k] ]

remove_item(name) ==
  LET found == binary_search(items_sorted, name)
      fail(res) == /\ last' = Call("remove_item", res, "", <<>>)
                   /\ UNCHANGED << items, items_sorted >>
  IN
  /\ UNCHANGED << sorted_by, category_tree, created >>
  /\ UNCHANGED standalone
  /\ IF ~ found.found
     THEN fail("TypeError")   \* index, sorted_index = -1
     ELSE IF found.index >= Len(items)
     THEN fail("IndexError")  \* self.items.pop(index)
     ELSE /\ items' = ListPop(items, found.index)
          /\ items_sorted' = Renumber(ListPop(items_sorted, found.sorted_index), found.index)
          /\ last' = Call("remove_item", "ok", "", <<>>)

(***************************************************************************)
(* edit_item(name, new_quantity, new_price, new_category_path)             *)
(***************************************************************************)
ArgKind(path) == IF path = NonePath THEN "None" ELSE IF path = <<>> THEN "empty" ELSE "path"

\* Updated without its check of the sign.
UpdatedUnchecked(current, new) == IF new # <<>> THEN new[1] ELSE current

\* new_quantity / new_price applied to the current value: replaced when the
\* argument is given and non-negative.
Updated(current, new) == IF new # <<>> /\ new[1] >= 0 THEN new[1] ELSE current

edit_item(name, new_quantity, new_price, new_category_path) ==
  LET got == GetItem(items, items_sorted, name)
      k == got.index + 1
      item == items[k]
      \* after "Update Quantity" and "Update Price"
      items1 == [ items EXCEPT ![k].quantity = Updated(@, new_quantity),
                               ![k].price = Updated(@, new_price) ]
      changed == \/ (new_quantity # <<>> /\ new_quantity[1] >= 0)
                 \/ (new_price # <<>> /\ new_price[1] >= 0)
      node == find_category_node(category_tree, item.category_path)
      unlink == item.category_path # <<>>
      tree1 == IF unlink
               THEN [ category_tree EXCEPT ![node.node].items = ListRemove(@, item.id) ]
               ELSE category_tree
      new_node == find_category_node(category_tree, new_category_path)
      result(res) == last' = Call("edit_item", res, ArgKind(new_category_path), <<>>)
  IN
  /\ UNCHANGED << items_sorted, sorted_by, created >>
  /\ UNCHANGED standalone
  /\ IF got.res = "IndexError"
     THEN result("IndexError") /\ UNCHANGED << items, category_tree >>
     ELSE IF got.res = "none"
     THEN result("item_not_found") /\ UNCHANGED << items, category_tree >>
     ELSE IF new_category_path = <<>>
     THEN /\ items' = items1
          /\ UNCHANGED category_tree
          /\ result(IF changed THEN "ok" ELSE "no_updates")
     ELSE IF new_category_path # NonePath /\ ~ new_node.found
     THEN /\ items' = items1
          /\ UNCHANGED category_tree
          /\ result("category_not_found")
     ELSE IF unlink /\ ~ node.found
     THEN \* node is None: node.items raises
          /\ items' = items1
          /\ UNCHANGED category_tree
          /\ result("AttributeError")
     ELSE IF unlink /\ item.id \notin Range(category_tree[node.node].items)
     THEN \* node.items.remove(item) raises
          /\ items' = items1
          /\ UNCHANGED category_tree
          /\ result("ValueError")
     ELSE /\ items' = [ items1 EXCEPT ![k].category_path = new_category_path ]
          /\ category_tree' = [ tree1 EXCEPT ![new_node.node].items = Append(@, item.id) ]
          \* ' > '.join(None) raises after the item was moved
          /\ result(IF new_category_path = NonePath THEN "TypeError" ELSE "ok")

(***************************************************************************)
(* sort_inventory(key): heap_sort and reset_sorted_list                    *)
(***************************************************************************)
\* key_func(a) > key_func(b) for the sort key
KeyGreater(key, a, b) ==
  IF key = KeyName THEN StrLess(Lower(b.name), Lower(a.name))
  ELSE IF key = KeyDate THEN a.date_added > b.date_added
  ELSE IF key = KeyQuantity THEN a.quantity > b.quantity
  ELSE IF key = KeyPrice THEN a.price > b.price
  ELSE StrLess(Lower(Join(b.category_path)), Lower(Join(a.category_path)))

\* key_func raises on one of the two items: ' > '.join(None)
KeyRaises(key, a, b) ==
  key = KeyCategory /\ (a.category_path = NonePath \/ b.category_path = NonePath)

Swap(arr, i, j) == [ arr EXCEPT ![i + 1] = arr[j + 1], ![j + 1] = arr[i + 1] ]

\* A list under sorting: arr, and ok = FALSE once an exception was raised.
Sorting(arr, ok) == [ arr |-> arr, ok |-> ok ]

RECURSIVE heapify(_, _, _, _)
heapify(arr, n, i, key) ==
  LET left == 2 * i + 1
      right == 2 * i + 2
      raise1 == left < n /\ KeyRaises(key, arr[left + 1], arr[i + 1])
      largest1 == IF left < n /\ KeyGreater(key, arr[left + 1], arr[i + 1])
                  THEN left ELSE i
      raise2 == right < n /\ KeyRaises(key, arr[right + 1], arr[largest1 + 1])
      largest == IF right < n /\ KeyGreater(key, arr[right + 1], arr[largest1 + 1])
                 THEN right ELSE largest1
  IN  IF raise1 THEN Sorting(arr, FALSE)
      ELSE IF raise2 THEN Sorting(arr, FALSE)
      ELSE IF largest # i THEN heapify(Swap(arr, i, largest), n, largest, key)
      ELSE Sorting(arr, TRUE)

\* for i in range(n // 2 - 1, -1, -1): heapify(arr, n, i)
RECURSIVE BuildHeap(_, _, _, _)
BuildHeap(st, n, i, key) ==
  IF i < 0 \/ ~ st.ok THEN st
  ELSE BuildHeap(heapify(st.arr, n, i, key), n, i - 1, key)

\* for i in range(n - 1, 0, -1): swap arr[i], arr[0]; heapify(arr, i, 0)
RECURSIVE Extract(_, _, _)
Extract(st, i, key) ==
  IF i < 1 \/ ~ st.ok THEN st
  ELSE Extract(heapify(Swap(st.arr, i, 0), i, 0, key), i - 1, key)

heap_sort(arr, key) ==
  LET n == Len(arr)
  IN  Extract(BuildHeap(Sorting(arr, TRUE), n, (n \div 2) - 1, key), n - 1, key)

\* lst[i] of Python for an i that may be negative: the 0-based position, or
\* -1 when lst[i] raises IndexError.
PyIndex(lst, i) ==
  IF i >= 0 /\ i < Len(lst) THEN i
  ELSE IF i < 0 /\ Len(lst) + i >= 0 THEN Len(lst) + i
  ELSE -1

\* The else branch of reset_sorted_list: for the item at position index of
\* its, then the next ones: items_sorted[binary_search(name)][1] = index.
RECURSIVE ResetLoop(_, _, _)
ResetLoop(st, its, index) ==
  IF index >= Len(its) \/ ~ st.ok THEN st
  ELSE LET sorted_index == binary_search(st.arr, its[index + 1].name).index
           at == PyIndex(st.arr, sorted_index)
       IN  IF at = -1 THEN Sorting(st.arr, FALSE)
           ELSE ResetLoop(Sorting([ st.arr EXCEPT ![at + 1] = << @[1], index >> ], TRUE),
                          its, index + 1)

reset_sorted_list(sorted, its, by) ==
  IF by = KeyName
  THEN Sorting([ i \in 1..Len(sorted) |-> << sorted[i][1], i - 1 >> ], TRUE)
  ELSE ResetLoop(Sorting(sorted, TRUE), its, 0)

sort_inventory(key0) ==
  LET key == Lower(key0)
      sorted == heap_sort(items, key)
      reset == reset_sorted_list(items_sorted, sorted.arr, key)
  IN
  /\ UNCHANGED << category_tree, created >>
  /\ UNCHANGED standalone
  /\ sorted_by' = key
  /\ IF key \notin ValidKeys
     THEN /\ last' = Call("sort_inventory", "invalid_sort_key", "", <<>>)
          /\ UNCHANGED << items, items_sorted >>
     ELSE IF ~ sorted.ok
     THEN /\ items' = sorted.arr
          /\ UNCHANGED items_sorted
          /\ last' = Call("sort_inventory", "TypeError", "", <<>>)
     ELSE /\ items' = sorted.arr
          /\ items_sorted' = reset.arr
          /\ last' = Call("sort_inventory", IF reset.ok THEN "ok" ELSE "IndexError", "", <<>>)

(***************************************************************************)
(* display_inventory(filter_path)                                          *)
(***************************************************************************)
\* The children of a node, as nodes.
ChildNodes(tree, n) == [ k \in 1..Len(tree[n].children) |-> Append(n, tree[n].children[k]) ]

\* The while loop of display_inventory: current_node, the queue next_nodes
\* (with the nodes allocated for it) and items_to_display.
RECURSIVE EnqueueAll(_, _, _)
EnqueueAll(next_nodes, kids, k) ==
  IF k > Len(kids) THEN next_nodes
  ELSE EnqueueAll(enqueue(next_nodes.nodes, next_nodes.Q, kids[k]), kids, k + 1)

\* The items of the subtree of current_node gathered depth first.
RECURSIVE GatherDepthFirst(_, _, _, _)
RECURSIVE GatherChildren(_, _, _, _, _)
GatherDepthFirst(tree, current_node, next_nodes, items_to_display) ==
  GatherChildren(tree, ChildNodes(tree, current_node), 1, next_nodes,
                 items_to_display \o tree[current_node].items)

GatherChildren(tree, kids, k, next_nodes, items_to_display) ==
  IF k > Len(kids) THEN items_to_display
  ELSE GatherChildren(tree, kids, k + 1, next_nodes,
                      GatherDepthFirst(tree, kids[k], next_nodes, items_to_display))

RECURSIVE Gather(_, _, _, _)
Gather(tree, current_node, next_nodes, items_to_display) ==
  LET shown == items_to_display \o tree[current_node].items
      queue == EnqueueAll(next_nodes, ChildNodes(tree, current_node), 1)
      taken == dequeue(queue.nodes, queue.Q)
  IN  IF is_empty(queue.Q) THEN shown
      ELSE Gather(tree, taken.answer, Allocated(taken.nodes, taken.Q), shown)

ItemIds(its) == [ k \in 1..Len(its) |-> its[k].id ]

display_inventory(filter_path) ==
  LET node == find_category_node(category_tree, filter_path)
  IN
  /\ UNCHANGED << items, items_sorted, sorted_by, category_tree, created >>
  /\ UNCHANGED standalone
  /\ IF filter_path = NonePath \/ filter_path = <<>>
     THEN last' = Call("display_inventory", "ok", "", ItemIds(items))
     ELSE IF ~ node.found
     THEN last' = Call("display_inventory", "AttributeError", "", <<>>)
     ELSE last' = Call("display_inventory", "ok", "",
                       Gather(category_tree, node.node, Allocated(<<>>, LinkedQueue), <<>>))

(***************************************************************************)
(* DataStructures/heap-sort.py: heap(lst, size, index) and heap_sort(lst)  *)
(* on a list of numbers.  Positions count from 0 as in the program.        *)
(***************************************************************************)
RECURSIVE heap(_, _, _)
heap(lst, size, index) ==
  LET left == 2 * index + 1
      right == 2 * index + 2
      larger == IF left < size /\ lst[left + 1] > lst[index + 1] THEN left ELSE index
      largest == IF right < size /\ lst[right + 1] > lst[larger + 1] THEN right ELSE larger
  IN  IF largest # index
      THEN \* lst[index], lst[largest] = lst[index], lst[index]
           heap([ lst EXCEPT ![index + 1] = lst[index + 1], ![largest + 1] = lst[index + 1] ],
                size, largest)
      ELSE lst

\* for i in range(size // 2 - 1, -1, -1)
RECURSIVE HeapBuild(_, _, _)
HeapBuild(lst, size, i) ==
  IF i < 0 THEN lst ELSE HeapBuild(heap(lst, size, i), size, i - 1)

\* for i in range(size - 1, 0, -1)
RECURSIVE HeapExtract(_, _)
HeapExtract(lst, i) ==
  IF i < 1 THEN lst
  ELSE HeapExtract(heap([ lst EXCEPT ![i + 1] = lst[1], ![1] = lst[i + 1] ], i, 0), i - 1)

\* heap_sort(lst) of heap-sort.py
heap_sort_standalone(lst) ==
  HeapExtract(HeapBuild(lst, Len(lst), (Len(lst) \div 2) - 1), Len(lst) - 1)

\* The list of test()
TestList == << 5, 1, 6, 7, 2, 4 >>

(***************************************************************************)
(* display_category_tree()                                                 *)
(***************************************************************************)
\* The prefix of a printed line: "  " * (level - 1), as its length.
Prefix(level) == IF level - 1 > 0 THEN 2 * (level - 1) ELSE 0

\* The while loop of display_category_tree: the stack of (node, level) pairs,
\* its top last, and the lines printed so far, each the node whose name is
\* printed and the length of the prefix before it.
RECURSIVE TreeLoop(_, _, _)
TreeLoop(tree, stack, lines) ==
  IF stack = <<>> THEN lines
  ELSE LET node == stack[Len(stack)][1]
           level == stack[Len(stack)][2]
           kids == ChildNodes(tree, node)
           reversed == [ k \in 1..Len(kids) |-> << kids[Len(kids) + 1 - k], level + 1 >> ]
       IN  TreeLoop(tree,
                    SubSeq(stack, 1, Len(stack) - 1) \o reversed,
                    IF tree[node].name # RootName
                    THEN Append(lines, << node, Prefix(level) >>)
                    ELSE lines)

display_category_tree ==
  /\ last' = Call("display_category_tree", "ok", "",
                  TreeLoop(category_tree, << << <<>>, 0 >> >>, <<>>))
  /\ UNCHANGED << items, items_sorted, sorted_by, category_tree, created >>
  /\ UNCHANGED standalone

(***************************************************************************)
(* save_inventory and load_inventory.  The file is modelled by its JSON    *)
(* content: numbers are written as their decimal digits and timestamps as  *)
(* the text isoformat() gives, and both are parsed back when loading.      *)
(* Names are text in the program and in the file alike.                    *)
(***************************************************************************)
\* json.dump of a number: its decimal digits, after a minus sign (45) when
\* it is negative.
RECURSIVE Digits(_)
Digits(n) ==
  IF n < 0 THEN << 45 >> \o Digits(0 - n)
  ELSE IF n < 10 THEN << 48 + n >>
  ELSE Append(Digits(n \div 10), 48 + (n % 10))

\* json.load of a number.
RECURSIVE Number(_)
Number(s) ==
  IF Len(s) = 0 THEN 0
  ELSE IF s[1] = 45 THEN 0 - Number(Tail(s))
  ELSE 10 * Number(SubSeq(s, 1, Len(s) - 1)) + (s[Len(s)] - 48)

\* date_added.isoformat(): the fields of the timestamp, zero-padded.  The
\* timestamp of the model is the construction count, written as one
\* two-digit field.
isoformat(d) == << 48 + ((d \div 10) % 10), 48 + (d % 10) >>

\* datetime.datetime.fromisoformat
fromisoformat(s) == Number(s)

\* InventoryItem.to_dict
item_to_dict(item) ==
  [ name |-> item.name,
    quantity |-> Digits(item.quantity),
    price |-> Digits(item.price),
    date_added |-> isoformat(item.date_added),
    category_path |-> item.category_path ]

\* CategoryNode.to_dict of the node n
RECURSIVE node_to_dict(_, _)
node_to_dict(tree, n) ==
  [ name |-> tree[n].name,
    children |-> [ k \in 1..Len(tree[n].children) |->
                     node_to_dict(tree, Append(n, tree[n].children[k])) ] ]

\* CategoryNode.from_dict(data), the node being n; and the subtrees of its
\* children from the k-th on.
RECURSIVE from_dict(_, _)
RECURSIVE FromDictChildren(_, _, _)
from_dict(data, n) ==
  ( n :> [ name |-> data.name,
           children |-> [ k \in 1..Len(data.children) |-> data.children[k].name ],
           items |-> <<>> ] )
    @@ FromDictChildren(data.children, n, 1)

FromDictChildren(kids, n, k) ==
  IF k > Len(kids) THEN <<>>
  ELSE from_dict(kids[k], Append(n, kids[k].name)) @@ FromDictChildren(kids, n, k + 1)

\* The file save_inventory writes.
save_inventory(its, tree) ==
  [ kind |-> "data",
    items |-> [ k \in 1..Len(its) |-> item_to_dict(its[k]) ],
    categories |-> node_to_dict(tree, <<>>) ]

\* No file of that name, and a file that is not JSON.
MissingFile == [ kind |-> "missing" ]
MalformedFile == [ kind |-> "malformed" ]

\* The manager while a file is loaded into it; ok = FALSE once an exception
\* was raised.
Loading(its, sorted, tree, n, ok) ==
  [ items |-> its, items_sorted |-> sorted, tree |-> tree, created |-> n, ok |-> ok ]

\* The keys load_inventory reads by item_data[...]: a missing one raises
\* KeyError.
RequiredFields == { "date_added", "name", "quantity", "price" }

\* item_data.get('category_path', [])
GetCategoryPath(item_data) ==
  IF "category_path" \in DOMAIN item_data THEN item_data.category_path ELSE <<>>

\* The for loop of load_inventory over data_loaded['items'], at item index.
\* quit tells what breakpoint() in binary_insertion does when it is reached:
\* the debugger quits (BdbQuit is raised) or execution continues.
RECURSIVE LoadLoop(_, _, _, _)
LoadLoop(st, datas, index, quit) ==
  IF index >= Len(datas) \/ ~ st.ok THEN st
  ELSE
    LET item_data == datas[index + 1]
        quantity == Number(item_data.quantity)
        price == Number(item_data.price)
        new_item ==
          [ InventoryItem(st.created + 1, item_data.name, quantity, price,
                          GetCategoryPath(item_data))
              EXCEPT !.date_added = fromisoformat(item_data.date_added) ]
        items1 == Append(st.items, new_item)
        sorted_index == binary_insertion(st.items_sorted, new_item.name)
        sorted1 == ListInsert(st.items_sorted, sorted_index, << new_item.name, index >>)
        link == new_item.category_path # <<>> /\ new_item.category_path # NonePath
        node == find_category_node(st.tree, new_item.category_path)
    IN  IF ~ (RequiredFields \subseteq DOMAIN item_data)
        THEN \* KeyError
             Loading(st.items, st.items_sorted, st.tree, st.created, FALSE)
        ELSE IF InvalidItem(item_data.name, quantity, price)
        THEN Loading(st.items, st.items_sorted, st.tree, st.created, FALSE)
        ELSE IF sorted_index = -1 /\ quit
        THEN Loading(items1, st.items_sorted, st.tree, st.created + 1, FALSE)
        ELSE IF link /\ ~ node.found
        THEN \* node is None: node.items raises
             Loading(items1, sorted1, st.tree, st.created + 1, FALSE)
        ELSE LoadLoop(
               Loading(items1, sorted1,
                       IF link
                       THEN [ st.tree EXCEPT ![node.node].items = Append(@, new_item.id) ]
                       ELSE st.tree,
                       st.created + 1, TRUE),
               datas, index + 1, quit)

\* load_inventory of a JSON file into a manager whose index is sorted,
\* whose tree is tree and which has constructed n items: self.items is
\* cleared, the tree replaced when the file has 'categories', the items of
\* 'items' loaded when the file has them, the index kept.
Loaded(sorted, tree, n, file, quit) ==
  LoadLoop(Loading(<<>>, sorted,
                   IF "categories" \in DOMAIN file
                   THEN from_dict(file.categories, <<>>) ELSE tree,
                   n, TRUE),
           IF "items" \in DOMAIN file THEN file.items ELSE <<>>, 0, quit)

load_inventory(file, quit) ==
  LET loaded == Loaded(items_sorted, category_tree, created, file, quit)
  IN
  /\ UNCHANGED sorted_by
  /\ UNCHANGED standalone
  /\ IF file.kind = "missing"
     THEN /\ last' = Call("load_inventory", "no_file", "", <<>>)
          /\ UNCHANGED << items, items_sorted, category_tree, created >>
     ELSE IF file.kind = "malformed"
     THEN /\ last' = Call("load_inventory", "decode_error", "", <<>>)
          /\ UNCHANGED << items, items_sorted, category_tree, created >>
     ELSE /\ items' = loaded.items
          /\ items_sorted' = loaded.items_sorted
          /\ category_tree' = loaded.tree
          /\ created' = loaded.created
          /\ last' = Call("load_inventory", IF loaded.ok THEN "ok" ELSE "load_error",
                          "", <<>>)

\* The tree of a manager just constructed.
NewTree == ( <<>> :> CategoryNode(RootName) )

\* run_app ends by save_inventory, and the next run_app starts with a new
\* manager and load_inventory of that file.
restart(quit) ==
  LET loaded == Loaded(<<>>, NewTree, created, save_inventory(items, category_tree), quit)
  IN
  /\ items' = loaded.items
  /\ items_sorted' = loaded.items_sorted
  /\ category_tree' = loaded.tree
  /\ created' = loaded.created
  /\ sorted_by' = <<>>
  /\ UNCHANGED standalone
  /\ last' = Call("restart", IF loaded.ok THEN "ok" ELSE "load_error", "", <<>>)

(***************************************************************************)
(* The manager under all its operations.  Items are added under the names  *)
(* "a" and "B" and looked up as "a" and "b"; the categories are "F" (also  *)
(* spelled "f") and its subcategory "L".                                   *)
(***************************************************************************)
MgrNames == { <<97>>, <<66>> }
MgrLookups == { <<97>>, <<98>> }
MgrItemInputs ==
  (MgrNames \X { 1 } \X Prices)
    \cup { << <<>>, 1, 1 >>, << <<97>>, -1, 1 >>, << <<97>>, 1, -1 >> }
MgrCategoryPaths == { <<>>, << <<70>> >>, << <<102>>, <<76>> >> }
MgrItemPaths == { <<>>, << <<102>> >>, << <<70>>, <<76>> >> }
\* (new_quantity, new_price, new_category_path) of the edits: every kind of
\* category argument alone (None, empty, resolvable or not), a new quantity
\* alone and with a path that does not resolve, and negative values.
MgrEdits ==
  { << <<>>, <<>>, p >> : p \in MgrItemPaths \cup { NonePath, << <<76>> >> } }
    \cup { << <<2>>, <<>>, <<>> >>, << <<2>>, <<>>, << <<76>> >> >>,
           << <<-1>>, <<-1>>, <<>> >> }
MgrSortKeys == { KeyQuantity, KeyBogus }
MgrFilters == { NonePath, << <<70>> >>, << <<76>> >> }

AddCategory == \E path \in MgrCategoryPaths : add_category(path)

AddItem ==
  \E i \in MgrItemInputs, category_path \in MgrItemPaths :
     /\ add_item(i[1], i[2], i[3], category_path)
     /\ created' <= MgrMaxCreated

EditItem ==
  \E name \in MgrLookups, e \in MgrEdits : edit_item(name, e[1], e[2], e[3])

RemoveItem == \E name \in MgrLookups : remove_item(name)

SortInventory == \E key \in MgrSortKeys : sort_inventory(key)

DisplayInventory == \E filter_path \in MgrFilters : display_inventory(filter_path)

Next ==
  \/ AddCategory
  \/ AddItem
  \/ EditItem
  \/ RemoveItem
  \/ SortInventory
  \/ DisplayInventory

Spec == Init /\ [][Next]_vars

(***************************************************************************)
(* The item store and its index under add_item and remove_item alone,      *)
(* from an empty manager: items named "a", "B", "b", "C", uncategorized or *)
(* under the category path ["F"], which no add_category has created.       *)
(***************************************************************************)
IndexAddItem ==
  \E i \in ItemInputs, category_path \in { <<>>, << <<70>> >> } :
     /\ add_item(i[1], i[2], i[3], category_path)
     /\ created' <= MaxCreated

IndexRemoveItem == \E name \in Names : remove_item(name)

NextIndex == IndexAddItem \/ IndexRemoveItem

SpecIndex == Init /\ [][NextIndex]_vars

(***************************************************************************)
(* The item store under add_item, remove_item and sort_inventory, with     *)
(* uncategorized items.                                                    *)
(***************************************************************************)
SortNames == { <<97>>, <<66>>, <<98>> }
SortQuantities == { 1, 2 }
SortItemInputs == SortNames \X SortQuantities \X Prices

SortAddItem ==
  \E i \in SortItemInputs :
     /\ add_item(i[1], i[2], i[3], <<>>)
     /\ created' <= SortMaxCreated

SortRemoveItem == \E name \in SortNames : remove_item(name)

SortSortInventory == \E key \in SortKeys : sort_inventory(key)

NextSort == SortAddItem \/ SortRemoveItem \/ SortSortInventory

SpecSort == Init /\ [][NextSort]_vars

(***************************************************************************)
(* The item store under add_item, edit_item and sort_inventory: items "a"  *)
(* and "B", uncategorized; edits of quantity and price, with the category  *)
(* argument left at its default (None) or given as [].                     *)
(***************************************************************************)
\* (new_quantity, new_price): a valid quantity alone, a negative quantity
\* with a valid price, a negative price alone, and neither.
EditValues ==
  { << <<2>>, <<>> >>, << <<-1>>, <<3>> >>, << <<>>, <<-1>> >>, << <<>>, <<>> >> }
EditPaths == { <<>>, NonePath }
EditSortKeys == { KeyQuantity, KeyCategory, KeyBogus }

EditAddItem ==
  \E i \in MgrItemInputs :
     /\ add_item(i[1], i[2], i[3], <<>>)
     /\ created' <= EditMaxCreated

EditEditItem ==
  \E name \in MgrLookups, e \in EditValues, new_category_path \in EditPaths :
     edit_item(name, e[1], e[2], new_category_path)

EditSortInventory == \E key \in EditSortKeys : sort_inventory(key)

NextEdit == EditAddItem \/ EditEditItem \/ EditSortInventory

SpecEdit == Init /\ [][NextEdit]_vars

(***************************************************************************)
(* The category tree under add_category, with items added to and removed   *)
(* from its nodes.  Categories "F" (also spelled "f") and "L" (also "l",   *)
(* 108) at the top level and below each other; one item name, "a".         *)
(***************************************************************************)
TreeCategoryPaths ==
  { <<>>, << <<70>> >>, << <<102>> >>, << <<76>> >>,
    << <<70>>, <<76>> >>, << <<102>>, <<108>> >>, << <<76>>, <<76>> >> }
TreeItemPaths == { <<>>, << <<70>> >>, << <<102>>, <<76>> >> }

TreeAddCategory == \E path \in TreeCategoryPaths : add_category(path)

TreeAddItem ==
  \E category_path \in TreeItemPaths :
     /\ add_item(<<97>>, 1, 1, category_path)
     /\ created' <= TreeMaxCreated

TreeRemoveItem == remove_item(<<97>>)

NextTree == TreeAddCategory \/ TreeAddItem \/ TreeRemoveItem

SpecTree == Init /\ [][NextTree]_vars

(***************************************************************************)
(* The manager under add_category, add_item, load_inventory and a restart  *)
(* of the application.  Items "a" and "B", uncategorized or under "F".     *)
(***************************************************************************)
LoadItemPaths == { <<>>, << <<102>> >> }

\* The files a load can find: the one a save_inventory of this manager has
\* just written, none, or one that is not JSON.
\* Files written by hand: the JSON of one item, and of the tree with the
\* one category F.
ItemData(name, quantity, price, category_path) ==
  [ name |-> name,
    quantity |-> Digits(quantity),
    price |-> Digits(price),
    date_added |-> isoformat(1),
    category_path |-> category_path ]

TreeData == [ name |-> RootName, children |-> << [ name |-> <<70>>, children |-> <<>> ] >> ]

\* A file whose second item names a category the file's tree has not.
UnresolvedFile ==
  [ kind |-> "data",
    items |-> << ItemData(<<97>>, 1, 1, << <<70>> >>), ItemData(<<66>>, 1, 1, << <<88>> >>) >>,
    categories |-> TreeData ]

\* A file whose second item has a negative quantity.
NegativeFile ==
  [ kind |-> "data",
    items |-> << ItemData(<<97>>, 1, 1, << <<70>> >>), ItemData(<<66>>, -1, 1, <<>>) >>,
    categories |-> TreeData ]

\* A file whose second item has no price.
FieldlessFile ==
  [ kind |-> "data",
    items |-> << ItemData(<<97>>, 1, 1, << <<70>> >>),
                 [ name |-> <<66>>, quantity |-> Digits(1), date_added |-> isoformat(1),
                   category_path |-> <<>> ] >>,
    categories |-> TreeData ]

\* A file without 'categories' whose item has no 'category_path', and a file
\* without 'items'.
LegacyFile ==
  [ kind |-> "data",
    items |-> << [ name |-> <<97>>, quantity |-> Digits(1), price |-> Digits(1),
                   date_added |-> isoformat(1) ] >> ]

ItemlessFile == [ kind |-> "data", categories |-> TreeData ]

LoadFiles ==
  { save_inventory(items, category_tree), MissingFile, MalformedFile,
    UnresolvedFile, NegativeFile, FieldlessFile, LegacyFile, ItemlessFile }

LoadAddCategory == add_category(<< <<70>> >>)

LoadAddItem ==
  \E name \in MgrNames, category_path \in LoadItemPaths :
     /\ add_item(name, 1, 1, category_path)
     /\ created' <= LoadMaxCreated

LoadInventory ==
  \E file \in LoadFiles, quit \in BOOLEAN :
     /\ load_inventory(file, quit)
     /\ created' <= LoadMaxCreated

Restart ==
  \E quit \in BOOLEAN :
     /\ restart(quit)
     /\ created' <= LoadMaxCreated

NextLoad == LoadAddCategory \/ LoadAddItem \/ LoadInventory \/ Restart

SpecLoad == Init /\ [][NextLoad]_vars

(***************************************************************************)
(* find_category_node on the trees add_category builds from "F" and "L",   *)
(* looked up under other spellings ("f", "l") and under a name no category *)
(* has ("x", 120).                                                         *)
(***************************************************************************)
FindCategoryPaths ==
  { << <<70>> >>, << <<76>> >>, << <<70>>, <<76>> >>, << <<70>>, <<70>> >>,
    << <<70>>, <<76>>, <<70>> >> }
FindPaths ==
  { <<>>, << <<102>> >>, << <<76>> >>, << <<120>> >>, << <<102>>, <<108>> >>,
    << <<102>>, <<102>> >>, << <<108>>, <<102>> >>, << <<102>>, <<120>> >>,
    << <<120>>, <<108>> >>, << <<102>>, <<108>>, <<102>> >>,
    << <<102>>, <<108>>, <<120>> >> }

\* A call of find_category_node(path): last records the path and the node
\* returned.
FindCategoryNode(path) ==
  LET node == find_category_node(category_tree, path)
  IN  /\ last' = Call("find_category_node", IF node.found THEN "node" ELSE "None",
                      path, node.node)
      /\ UNCHANGED << items, items_sorted, sorted_by, category_tree, created >>
      /\ UNCHANGED standalone

FindAddCategory == \E path \in FindCategoryPaths : add_category(path)

FindFind == \E path \in FindPaths : FindCategoryNode(path)

NextFind == FindAddCategory \/ FindFind

SpecFind == Init /\ [][NextFind]_vars

(***************************************************************************)
(* The two displays on the trees add_category builds from F, F > A, F > B, *)
(* F > A > C and a category named ROOT, with the items "a" and "b" added   *)
(* under F, F > B and F > A > C.                                           *)
(***************************************************************************)
ShowCategoryPaths ==
  { << <<70>> >>, << <<70>>, <<65>> >>, << <<70>>, <<66>> >>,
    << <<70>>, <<65>>, <<67>> >>, << RootName >> }
ShowItemPaths == { << <<70>> >>, << <<70>>, <<66>> >>, << <<70>>, <<65>>, <<67>> >> }
ShowFilters == { << <<70>> >>, << <<70>>, <<65>> >>, << <<102>>, <<98>> >>, << <<88>> >> }

ShowAddCategory == \E path \in ShowCategoryPaths : add_category(path)

ShowAddItem ==
  \E name \in { <<97>>, <<98>> }, category_path \in ShowItemPaths :
     /\ add_item(name, 1, 1, category_path)
     /\ created' <= ShowMaxCreated

ShowDisplayTree == display_category_tree

ShowDisplayInventory == \E filter_path \in ShowFilters : display_inventory(filter_path)

NextShow == ShowAddCategory \/ ShowAddItem \/ ShowDisplayTree \/ ShowDisplayInventory

SpecShow == Init /\ [][NextShow]_vars

(***************************************************************************)
(* binary_insertion called on the index add_item and remove_item keep,     *)
(* with names the index has under another spelling and names it has not.   *)
(***************************************************************************)
InsertNames == { <<65>>, <<98>>, <<99>>, <<97, 98>>, <<90>> }

\* A call of binary_insertion(name): last records what it returned.  quit
\* tells what breakpoint() does when it is reached: the debugger quits
\* (BdbQuit is raised) or execution continues.
BinaryInsertion(name, quit) ==
  LET sorted_index == binary_insertion(items_sorted, name)
  IN  /\ IF sorted_index = -1 /\ quit
         THEN last' = Call("binary_insertion", "BdbQuit", "", <<>>)
         ELSE last' = Call("binary_insertion", "ok", "", << sorted_index >>)
      /\ UNCHANGED << items, items_sorted, sorted_by, category_tree, created >>
      /\ UNCHANGED standalone

InsertBinaryInsertion ==
  \E name \in InsertNames, quit \in BOOLEAN : BinaryInsertion(name, quit)

NextInsert == IndexAddItem \/ IndexRemoveItem \/ InsertBinaryInsertion

SpecInsert == Init /\ [][NextInsert]_vars

(***************************************************************************)
(* The heap_sort of heap-sort.py applied to every list of up to HeapMaxLen *)
(* values, and to the list of test().                                      *)
(***************************************************************************)
HeapLists == UNION { [ 1..n -> HeapValues ] : n \in 0..HeapMaxLen }

InitHeap ==
  /\ items = <<>>
  /\ items_sorted = <<>>
  /\ sorted_by = <<>>
  /\ category_tree = ( <<>> :> CategoryNode(RootName) )
  /\ created = 0
  /\ last = Call("init", "ok", "", <<>>)
  /\ list \in HeapLists
  /\ objects = <<>>
  /\ Q1 = LinkedQueue
  /\ pending = <<>>
  /\ Q2 = LinkedQueue
  /\ pending2 = <<>>
  /\ walk = NoWalk

\* heap_sort(list): last records the list as it was given.
HeapSort ==
  /\ list' = heap_sort_standalone(list)
  /\ last' = Call("heap_sort", "ok", "", list)
  /\ UNCHANGED << items, items_sorted, sorted_by, category_tree, created,
                  objects, Q1, pending, Q2, pending2, walk >>

\* test()
HeapTest ==
  /\ list' = heap_sort_standalone(TestList)
  /\ last' = Call("test", "ok", "", TestList)
  /\ UNCHANGED << items, items_sorted, sorted_by, category_tree, created,
                  objects, Q1, pending, Q2, pending2, walk >>

NextHeap == HeapSort \/ HeapTest

SpecHeap == InitHeap /\ [][NextHeap]_vars

(***************************************************************************)
(* The queue Q1 under enqueue, dequeue, first, is_empty and len.  pending  *)
(* follows the calls: an element joins it when enqueue returns and the     *)
(* oldest leaves it when dequeue returns.                                  *)
(***************************************************************************)
manager == << items, items_sorted, sorted_by, category_tree, created >>

QueueEnqueue(e) ==
  LET call == enqueue(objects, Q1, e)
  IN  /\ objects' = call.nodes
      /\ Q1' = call.Q
      /\ pending' = IF call.res = "ok" THEN Append(pending, e) ELSE pending
      /\ last' = Call("enqueue", call.res, "", <<>>)
      /\ UNCHANGED << manager, list, Q2, pending2, walk >>

QueueDequeue ==
  LET call == dequeue(objects, Q1)
  IN  /\ objects' = call.nodes
      /\ Q1' = call.Q
      /\ pending' = IF call.res = "ok" /\ pending # <<>> THEN Tail(pending) ELSE pending
      /\ last' = Call("dequeue", call.res, "",
                      IF call.res = "ok" THEN << call.answer >> ELSE <<>>)
      /\ UNCHANGED << manager, list, Q2, pending2, walk >>

QueueFirst ==
  LET call == first(objects, Q1)
  IN  /\ last' = Call("first", call.res, "",
                      IF call.res = "ok" THEN << call.answer >> ELSE <<>>)
      /\ UNCHANGED << manager, list, objects, Q1, pending, Q2, pending2, walk >>

QueueIsEmpty ==
  /\ last' = Call("is_empty", "ok", "", << is_empty(Q1) >>)
  /\ UNCHANGED << manager, list, objects, Q1, pending, Q2, pending2, walk >>

QueueLen ==
  /\ last' = Call("len", "ok", "", << len(Q1) >>)
  /\ UNCHANGED << manager, list, objects, Q1, pending, Q2, pending2, walk >>

QueueEnqueueSome ==
  \E e \in QueueElements : QueueEnqueue(e) /\ Len(objects') <= QueueMaxNodes

NextQueue == QueueEnqueueSome \/ QueueDequeue \/ QueueFirst \/ QueueIsEmpty \/ QueueLen

SpecQueue == Init /\ [][NextQueue]_vars

(***************************************************************************)
(* The queues Q1 and Q2 under enqueue on either, dequeue on Q1 and         *)
(* Q1.concatenate(Q2).                                                     *)
(***************************************************************************)
Queue2Enqueue(e) ==
  LET call == enqueue(objects, Q2, e)
  IN  /\ objects' = call.nodes
      /\ Q2' = call.Q
      /\ pending2' = IF call.res = "ok" THEN Append(pending2, e) ELSE pending2
      /\ last' = Call("enqueue", call.res, "Q2", <<>>)
      /\ UNCHANGED << manager, list, Q1, pending, walk >>

QueueConcatenate ==
  LET call == concatenate(objects, Q1, Q2)
  IN  /\ objects' = call.nodes
      /\ Q1' = call.Q
      /\ Q2' = call.other
      /\ pending' = IF call.res = "ok" THEN pending \o pending2 ELSE pending
      /\ pending2' = IF call.res = "ok" THEN <<>> ELSE pending2
      /\ last' = Call("concatenate", call.res, "", <<>>)
      /\ UNCHANGED << manager, list, walk >>

ConcatEnqueue ==
  \E e \in QueueElements : QueueEnqueue(e) /\ Len(objects') <= ConcatMaxNodes

ConcatEnqueue2 ==
  \E e \in QueueElements : Queue2Enqueue(e) /\ Len(objects') <= ConcatMaxNodes

NextConcat == ConcatEnqueue \/ ConcatEnqueue2 \/ QueueDequeue \/ QueueConcatenate

SpecConcat == Init /\ [][NextConcat]_vars

(***************************************************************************)
(* The loops of the two displays taken one iteration at a time, on the     *)
(* trees add_category builds from F, F > A, F > B and F > A > C.  The      *)
(* program runs a display to its end before anything else is called, so    *)
(* the tree is built only between displays.                                *)
(***************************************************************************)
WalkCategoryPaths ==
  { << <<70>> >>, << <<70>>, <<65>> >>, << <<70>>, <<66>> >>, << <<70>>, <<65>>, <<67>> >> }
WalkFilters == { << <<70>> >>, << <<102>>, <<97>> >>, << <<88>> >> }

Running == walk.at \in { "stack", "queue" }

\* stack.pop() followed by the children pushed in reverse order.
\* WalkPushFirst pushes only the first child.
WalkPushFirst(tree, stack) ==
  LET node == stack[Len(stack)][1]
      level == stack[Len(stack)][2]
      kids == ChildNodes(tree, node)
  IN  SubSeq(stack, 1, Len(stack) - 1)
        \o (IF kids = <<>> THEN <<>> ELSE << << kids[1], level + 1 >> >>)

WalkPush(tree, stack) ==
  LET node == stack[Len(stack)][1]
      level == stack[Len(stack)][2]
      kids == ChildNodes(tree, node)
  IN  SubSeq(stack, 1, Len(stack) - 1)
        \o [ k \in 1..Len(kids) |-> << kids[Len(kids) + 1 - k], level + 1 >> ]

\* display_category_tree up to its loop: the stack holds the root.
WalkStartTree ==
  /\ ~ Running
  /\ walk' = Walk("stack", <<>>, << << <<>>, 0 >> >>, Allocated(<<>>, LinkedQueue),
                  <<>>, <<>>, <<>>)
  /\ last' = Call("display_category_tree", "started", "", <<>>)
  /\ UNCHANGED << manager, list, objects, Q1, pending, Q2, pending2 >>

\* One iteration of `while stack`; the loop ends when it leaves the stack
\* empty.
WalkStackStep ==
  /\ walk.at = "stack"
  /\ LET node == walk.stack[Len(walk.stack)][1]
         level == walk.stack[Len(walk.stack)][2]
         stack == WalkPush(category_tree, walk.stack)
         lines == IF category_tree[node].name # RootName
                  THEN Append(walk.lines, << node, Prefix(level) >>)
                  ELSE walk.lines
     IN  /\ walk' = Walk(IF stack = <<>> THEN "done" ELSE "stack", walk.start, stack,
                         walk.next_nodes, node, Append(walk.taken, node), lines)
         /\ last' = IF stack = <<>>
                    THEN Call("display_category_tree", "ok", "", lines)
                    ELSE last
  /\ UNCHANGED << manager, list, objects, Q1, pending, Q2, pending2 >>

\* display_inventory(filter_path) up to its loop: current_node is the node
\* of the path, and node.items raises when there is none.
WalkStartFilter(filter_path) ==
  LET node == find_category_node(category_tree, filter_path)
  IN  /\ ~ Running
      /\ IF node.found
         THEN /\ walk' = Walk("queue", node.node, <<>>, Allocated(<<>>, LinkedQueue),
                              node.node, << node.node >>, <<>>)
              /\ last' = Call("display_inventory", "started", "", <<>>)
         ELSE /\ walk' = NoWalk
              /\ last' = Call("display_inventory", "AttributeError", "", <<>>)
      /\ UNCHANGED << manager, list, objects, Q1, pending, Q2, pending2 >>

\* One iteration of `while running`; the loop ends when the queue is empty
\* after the children were enqueued.
WalkQueueStep ==
  /\ walk.at = "queue"
  /\ LET shown == walk.lines \o category_tree[walk.current_node].items
         queue == EnqueueAll(walk.next_nodes, ChildNodes(category_tree, walk.current_node), 1)
         taken == dequeue(queue.nodes, queue.Q)
     IN  IF is_empty(queue.Q)
         THEN /\ walk' = Walk("done", walk.start, <<>>, Allocated(queue.nodes, queue.Q),
                              walk.current_node, walk.taken, shown)
              /\ last' = Call("display_inventory", "ok", "", shown)
         ELSE /\ walk' = Walk("queue", walk.start, <<>>, Allocated(taken.nodes, taken.Q),
                              taken.answer, Append(walk.taken, taken.answer), shown)
              /\ UNCHANGED last
  /\ UNCHANGED << manager, list, objects, Q1, pending, Q2, pending2 >>

WalkAddCategory ==
  /\ ~ Running
  /\ \E path \in WalkCategoryPaths : add_category(path)

WalkStartSomeFilter == \E filter_path \in WalkFilters : WalkStartFilter(filter_path)

NextWalk ==
  WalkAddCategory \/ WalkStartTree \/ WalkStackStep \/ WalkStartSomeFilter \/ WalkQueueStep

SpecWalk == Init /\ [][NextWalk]_vars

\* A display that was called runs on: its loop takes its next iteration.
SpecWalkFair == SpecWalk /\ WF_vars(WalkStackStep) /\ WF_vars(WalkQueueStep)

(***************************************************************************)
(* Properties.                                                             *)
(***************************************************************************)
\* The positions of the items whose name equals name ignoring case.
Matches(name) == { p \in 0..(Len(items) - 1) : Lower(items[p + 1].name) = Lower(name) }

\* The nodes whose items list refers to the item object id.
Holders(tree, id) == { n \in DOMAIN tree : id \in Range(tree[n].items) }

\* The outcomes that are reported errors (as opposed to raised exceptions).
ReportedErrors ==
  { "duplicate_item", "category_not_found", "item_not_found", "invalid_sort_key",
    "parent_not_found", "duplicate_category", "empty_path" }

\* C1: after every add_item and remove_item, in any sequence of such calls
\* from an empty manager, items_sorted has the length of items, is sorted
\* ascending by lowercased name, and every entry [name, pos] has
\* 0 <= pos < len(items) and items[pos].name = name, each position once.
C1_IndexConsistent ==
  /\ Len(items_sorted) = Len(items)
  /\ \A k \in 1..(Len(items_sorted) - 1) :
       ~ StrLess(Lower(items_sorted[k + 1][1]), Lower(items_sorted[k][1]))
  /\ \A k \in 1..Len(items_sorted) :
       /\ items_sorted[k][2] >= 0
       /\ items_sorted[k][2] < Len(items)
       /\ items[items_sorted[k][2] + 1].name = items_sorted[k][1]
  /\ \A j, k \in 1..Len(items_sorted) :
       j # k => items_sorted[j][2] # items_sorted[k][2]

\* A removal has left two items whose store order is the reverse of their
\* index order.
C1_Witness ==
  /\ last.op = "remove_item" /\ last.res = "ok"
  /\ Len(items) = 2
  /\ items_sorted[1][2] = 1

\* C2: every node's items list is exactly the set of stored items whose
\* category_path resolves to that node, each listed once.
C2_TreeMatchesStore ==
  \A n \in NodeIds :
    /\ \A j, k \in 1..Len(category_tree[n].items) :
         j # k => category_tree[n].items[j] # category_tree[n].items[k]
    /\ Range(category_tree[n].items) =
         { items[k].id : k \in { k \in 1..Len(items) :
              /\ items[k].category_path # <<>>
              /\ find_category_node(category_tree, items[k].category_path) = SomeNode(n) } }

\* C3: remove_item(name) for a name that matches no item reports
\* item-not-found without raising and leaves store, index and tree unchanged.
C3_RemoveMissingReported ==
  [][ \A name \in MgrLookups :
        (Matches(name) = {} /\ remove_item(name))
          => /\ last'.res = "item_not_found"
             /\ UNCHANGED << items, items_sorted, category_tree >> ]_vars

\* The index entry e after the removal of store position p.
Shifted(e, p) == << e[1], IF e[2] > p THEN e[2] - 1 ELSE e[2] >>

\* C4: remove_item(name) for a name matching the item at position p removes
\* exactly that item from the store, removes exactly the index entry that
\* pointed at p, decrements the stored position of every remaining entry
\* whose position was greater than p and leaves the other entries unchanged.
C4_RemoveExact ==
  [][ \A name \in MgrLookups : \A p \in Matches(name) :
        remove_item(name)
          => /\ items' = ListPop(items, p)
             /\ \E j \in 1..Len(items_sorted) :
                  /\ items_sorted[j][2] = p
                  /\ Len(items_sorted') = Len(items_sorted) - 1
                  /\ \A i \in 1..Len(items_sorted') :
                       items_sorted'[i] =
                         Shifted(items_sorted[IF i < j THEN i ELSE i + 1], p) ]_vars

\* C5: every item a filtered or unfiltered display lists is in the item
\* store at that moment (a removed item is listed by no category).
C5_DisplayedAreStored ==
  (last.op = "display_inventory" /\ last.res = "ok")
    => Range(last.out) \subseteq Range(ItemIds(items))

\* C6: edit_item for an existing item with new_category_path = None leaves
\* every item's category_path and every node's items list as they were.
C6_NoneLeavesCategory ==
  [][ \A name \in MgrLookups : \A e \in MgrEdits :
        (e[3] = NonePath /\ Matches(name) # {} /\ edit_item(name, e[1], e[2], e[3]))
          => /\ category_tree' = category_tree
             /\ \A k \in 1..Len(items) : items'[k].category_path = items[k].category_path ]_vars

\* C7: edit_item with new_category_path = [] on an item whose category_path
\* is a resolvable non-empty path empties the item's category_path and
\* leaves the item in no node's items list.
C7_EmptyPathUnlinks ==
  [][ \A name \in MgrLookups : \A e \in MgrEdits : \A p \in Matches(name) :
        ( /\ e[3] = <<>>
          /\ items[p + 1].category_path \notin { <<>>, NonePath }
          /\ find_category_node(category_tree, items[p + 1].category_path).found
          /\ edit_item(name, e[1], e[2], e[3]) )
          => /\ items'[p + 1].category_path = <<>>
             /\ Holders(category_tree', items[p + 1].id) = {} ]_vars

\* C8: edit_item with a non-empty new_category_path that resolves to node N,
\* on an existing item, sets the item's category_path to the new path and
\* leaves the item listed in N and in no other node.
C8_PathRelinks ==
  [][ \A name \in MgrLookups : \A e \in MgrEdits : \A p \in Matches(name) :
        ( /\ e[3] \notin { <<>>, NonePath }
          /\ find_category_node(category_tree, e[3]).found
          /\ edit_item(name, e[1], e[2], e[3]) )
          => /\ items'[p + 1].category_path = e[3]
             /\ Holders(category_tree', items[p + 1].id) =
                  { find_category_node(category_tree, e[3]).node } ]_vars

\* C9: whenever an operation reports an error, the item store, the sorted
\* index and the category tree are what they were before the call.
C9_ErrorsChangeNothing ==
  [][ (last'.res \in ReportedErrors)
        => UNCHANGED << items, items_sorted, category_tree >> ]_vars

\* C10: no two items of the item store have names equal ignoring case.
C10_NamesUnique ==
  \A j, k \in 1..Len(items) :
    j # k => Lower(items[j].name) # Lower(items[k].name)

\* C11: add_item of a valid item with a new name and a non-empty
\* category_path fails with category-not-found, changing nothing, when the
\* path does not resolve; when it resolves (every prefix was created by
\* add_category) the add succeeds, the item is appended to the resolved
\* node's items, and a filtered display of that node and of every ancestor
\* category on the path returns it.
C11_AddUnderCategory ==
  [][ \A i \in MgrItemInputs : \A category_path \in MgrItemPaths :
        ( /\ ~ InvalidItem(i[1], i[2], i[3])
          /\ Matches(i[1]) = {}
          /\ category_path # <<>>
          /\ add_item(i[1], i[2], i[3], category_path) )
          => LET node == find_category_node(category_tree, category_path)
             IN  IF ~ node.found
                 THEN /\ last'.res = "category_not_found"
                      /\ UNCHANGED << items, items_sorted, category_tree >>
                 ELSE /\ last'.res = "ok"
                      /\ category_tree'[node.node].items =
                           Append(category_tree[node.node].items, created + 1)
                      /\ \A k \in 1..Len(category_path) :
                           (created + 1) \in
                             Range(Gather(category_tree',
                                          find_category_node(category_tree',
                                             SubSeq(category_path, 1, k)).node,
                                          Allocated(<<>>, LinkedQueue), <<>>)) ]_vars

\* The key of sort_inventory is defined on the item: the category key is
\* computed from a list of category names.
HasKey(key, item) == key # KeyCategory \/ item.category_path # NonePath

\* C12: for every valid key and every store content, sort_inventory(key)
\* leaves the store a permutation of its previous content (same items, none
\* lost or duplicated) ordered non-decreasingly by that key.
C12_SortOrders ==
  [][ \A key \in SortKeys :
        ( Lower(key) \in { KeyName, KeyDate, KeyQuantity, KeyPrice, KeyCategory }
          /\ sort_inventory(key) )
          => /\ Len(items') = Len(items)
             /\ \A id \in 1..created :
                  Cardinality({ k \in 1..Len(items') : items'[k].id = id })
                    = Cardinality({ k \in 1..Len(items) : items[k].id = id })
             /\ \A k \in 1..Len(items) : items'[k] \in Range(items)
             /\ \A k \in 1..(Len(items') - 1) :
                  /\ HasKey(Lower(key), items'[k])
                  /\ HasKey(Lower(key), items'[k + 1])
                  /\ ~ KeyGreater(Lower(key), items'[k], items'[k + 1]) ]_vars

\* C13: after sort_inventory(key) with any valid key the index is still
\* sorted by lowercased name, every entry [name, pos] points at the store
\* position that now holds the item of that name, binary_search(name)
\* returns that position for every stored item, and for the key "name" the
\* stored positions are 0..n-1 in index order.
C13_IndexFollowsSort ==
  [][ \A key \in SortKeys :
        ( Lower(key) \in { KeyName, KeyDate, KeyQuantity, KeyPrice, KeyCategory }
          /\ sort_inventory(key) )
          => /\ \A k \in 1..(Len(items_sorted') - 1) :
                  ~ StrLess(Lower(items_sorted'[k + 1][1]), Lower(items_sorted'[k][1]))
             /\ \A k \in 1..Len(items_sorted') :
                  /\ items_sorted'[k][2] >= 0
                  /\ items_sorted'[k][2] < Len(items')
                  /\ items'[items_sorted'[k][2] + 1].name = items_sorted'[k][1]
             /\ \A p \in 1..Len(items') :
                  binary_search(items_sorted', items'[p].name).index = p - 1
             /\ Lower(key) = KeyName
                  => \A k \in 1..Len(items_sorted') : items_sorted'[k][2] = k - 1 ]_vars

\* C14: sort_inventory(key) with a key that, lowercased, is not one of
\* name, date, quantity, price, category reports an invalid sort key and
\* leaves the order of the store and the index unchanged.
C14_InvalidKeyRejected ==
  [][ \A key \in SortKeys :
        ( Lower(key) \notin { KeyName, KeyDate, KeyQuantity, KeyPrice, KeyCategory }
          /\ sort_inventory(key) )
          => /\ last'.res = "invalid_sort_key"
             /\ UNCHANGED << items, items_sorted >> ]_vars

\* An invalid key was given for a store of two items whose order a sort
\* would change.
C14_Witness ==
  /\ last.op = "sort_inventory" /\ last.res = "invalid_sort_key"
  /\ Len(items) = 2
  /\ items[1].quantity > items[2].quantity

\* C15: every stored item has a non-empty name, quantity >= 0 and
\* price >= 0 after any sequence of operations: constructing an item with an
\* empty name or a negative quantity or price is rejected and adds nothing,
\* and edit_item changes a quantity or price only to a value that was
\* provided and is >= 0, applying each such value of the call to the item it
\* edits also when the other value is negative.
C15_ItemsValid ==
  [][ /\ \A k \in 1..Len(items') :
           items'[k].name # <<>> /\ items'[k].quantity >= 0 /\ items'[k].price >= 0
      /\ \A i \in MgrItemInputs :
           (InvalidItem(i[1], i[2], i[3]) /\ add_item(i[1], i[2], i[3], <<>>))
             => UNCHANGED << items, items_sorted >>
      /\ \A name \in MgrLookups : \A e \in EditValues : \A path \in EditPaths :
           edit_item(name, e[1], e[2], path)
             => /\ Len(items') = Len(items)
                /\ \A k \in 1..Len(items) :
                     /\ items'[k].name = items[k].name
                     /\ items'[k].quantity # items[k].quantity
                          => e[1] # <<>> /\ e[1][1] >= 0 /\ items'[k].quantity = e[1][1]
                     /\ items'[k].price # items[k].price
                          => e[2] # <<>> /\ e[2][1] >= 0 /\ items'[k].price = e[2][1]
                /\ last'.res # "item_not_found"
                     => \E k \in 1..Len(items) :
                          /\ (e[1] # <<>> /\ e[1][1] >= 0) => items'[k].quantity = e[1][1]
                          /\ (e[2] # <<>> /\ e[2][1] >= 0) => items'[k].price = e[2][1]
                          /\ \A j \in 1..Len(items) : j # k =>
                               /\ items'[j].quantity = items[j].quantity
                               /\ items'[j].price = items[j].price ]_vars

\* An edit with a negative quantity and a valid price has changed the price
\* of an item and left its quantity.
C15_Witness ==
  /\ last.op = "edit_item"
  /\ \E k \in 1..Len(items) : items[k].price = 3 /\ items[k].quantity = 2

\* The node n is one that the path resolves to: name by name, ignoring case.
Resolves(tree, path, n) ==
  /\ n \in DOMAIN tree
  /\ Len(n) = Len(path)
  /\ \A i \in 1..Len(path) : Lower(n[i]) = Lower(path[i])

\* C16: add_category(path) reports an error and leaves the tree unchanged
\* when the path is empty, when path[:-1] resolves to no node, or when the
\* parent has a child named path[-1] ignoring case; otherwise it appends one
\* new childless, itemless node named path[-1] as the last child of the
\* parent and changes nothing else.
C16_AddCategoryExact ==
  [][ \A path \in TreeCategoryPaths :
        add_category(path)
          => LET parent_path == SubSeq(path, 1, Len(path) - 1)
                 parents == { n \in NodeIds : Resolves(category_tree, parent_path, n) }
             IN  /\ UNCHANGED << items, items_sorted >>
                 /\ IF path = <<>>
                    THEN last'.res = "empty_path" /\ UNCHANGED category_tree
                    ELSE IF parents = {}
                    THEN last'.res = "parent_not_found" /\ UNCHANGED category_tree
                    ELSE \A parent \in parents :
                      IF \E c \in Range(category_tree[parent].children) :
                            Lower(c) = Lower(path[Len(path)])
                      THEN last'.res = "duplicate_category" /\ UNCHANGED category_tree
                      ELSE LET new == Append(parent, path[Len(path)])
                           IN  /\ last'.res = "ok"
                               /\ new \notin NodeIds
                               /\ DOMAIN category_tree' = NodeIds \cup { new }
                               /\ category_tree'[new] =
                                    [ name |-> path[Len(path)], children |-> <<>>,
                                      items |-> <<>> ]
                               /\ category_tree'[parent] =
                                    [ category_tree[parent] EXCEPT
                                        !.children = Append(@, path[Len(path)]) ]
                               /\ \A n \in NodeIds :
                                    n # parent => category_tree'[n] = category_tree[n] ]_vars

\* A category was added as the second child of the root, next to a
\* category that holds an item.
C16_Witness ==
  /\ last.op = "add_category" /\ last.res = "ok"
  /\ Len(category_tree[<<>>].children) = 2
  /\ category_tree[<< category_tree[<<>>].children[1] >>].items # <<>>
  /\ category_tree[<< category_tree[<<>>].children[1] >>].children = <<>>
  /\ category_tree[<< category_tree[<<>>].children[2] >>].items = <<>>
  /\ category_tree[<< category_tree[<<>>].children[2] >>].children = <<>>

\* C17: after any sequence of add_category calls and item operations no
\* node has two children whose names are equal ignoring case, every path
\* resolves to at most one node, and no call removes a node or changes the
\* order of the children it has.
C17_SiblingsUnique ==
  [][ /\ \A n \in DOMAIN category_tree' :
           \A j, k \in 1..Len(category_tree'[n].children) :
              j # k => Lower(category_tree'[n].children[j])
                         # Lower(category_tree'[n].children[k])
      /\ \A n, m \in DOMAIN category_tree' :
           Resolves(category_tree', n, m) => m = n
      /\ \A n \in NodeIds :
           /\ n \in DOMAIN category_tree'
           /\ category_tree'[n].name = category_tree[n].name
           /\ Len(category_tree'[n].children) >= Len(category_tree[n].children)
           /\ SubSeq(category_tree'[n].children, 1, Len(category_tree[n].children))
                = category_tree[n].children ]_vars

\* "f" was refused as a duplicate of "F" in a tree of three categories.
C17_Witness ==
  /\ last.op = "add_category" /\ last.res = "duplicate_category"
  /\ Cardinality(NodeIds) = 4
  /\ Len(category_tree[<<>>].children) = 2

\* C18: in every reachable state the root node of the category tree holds
\* no items.
C18_RootHoldsNoItems == category_tree[<<>>].items = <<>>

\* C19: display_inventory(filter_path) with a non-empty filter_path that
\* resolves to no node completes normally with an empty result, as for a
\* node whose subtree holds no items, and changes no state.
C19_UnresolvedFilterIsEmpty ==
  [][ \A filter_path \in MgrFilters :
        ( /\ filter_path \notin { <<>>, NonePath }
          /\ \A n \in NodeIds : ~ Resolves(category_tree, filter_path, n)
          /\ display_inventory(filter_path) )
          => /\ last'.res = "ok"
             /\ last'.out = <<>>
             /\ UNCHANGED << items, items_sorted, sorted_by, category_tree >> ]_vars

\* The index sorted is one for the store its: as long, sorted by lowercased
\* name, each entry pointing at the item of its name, each position once.
IndexFits(sorted, its) ==
  /\ Len(sorted) = Len(its)
  /\ \A k \in 1..(Len(sorted) - 1) : ~ StrLess(Lower(sorted[k + 1][1]), Lower(sorted[k][1]))
  /\ \A k \in 1..Len(sorted) :
       /\ sorted[k][2] >= 0
       /\ sorted[k][2] < Len(its)
       /\ its[sorted[k][2] + 1].name = sorted[k][1]
  /\ \A j, k \in 1..Len(sorted) : j # k => sorted[j][2] # sorted[k][2]

\* Each node of tree lists, once, the items of its whose category path leads
\* to it, and no other.
LinksFit(tree, its) ==
  \A n \in DOMAIN tree :
    /\ \A j, k \in 1..Len(tree[n].items) : j # k => tree[n].items[j] # tree[n].items[k]
    /\ Range(tree[n].items) =
         { its[k].id : k \in { k \in 1..Len(its) :
              /\ its[k].category_path \notin { <<>>, NonePath }
              /\ Resolves(tree, its[k].category_path, n) } }

\* C20: save_inventory followed by load_inventory of the saved file, into
\* the same manager or into the new manager of a restarted application,
\* gives a store with the same items in the same order (names, quantities,
\* prices, category paths, timestamps), a tree of the same shape (names and
\* order of children), and an index and node item lists that fit the loaded
\* items.
C20_RoundTrip ==
  [][ ( \/ \E quit \in BOOLEAN :
             load_inventory(save_inventory(items, category_tree), quit)
        \/ \E quit \in BOOLEAN : restart(quit) )
        => /\ Len(items') = Len(items)
           /\ \A k \in 1..Len(items) :
                /\ items'[k].name = items[k].name
                /\ items'[k].quantity = items[k].quantity
                /\ items'[k].price = items[k].price
                /\ items'[k].category_path = items[k].category_path
                /\ items'[k].date_added = items[k].date_added
           /\ DOMAIN category_tree' = NodeIds
           /\ \A n \in NodeIds :
                /\ category_tree'[n].name = category_tree[n].name
                /\ category_tree'[n].children = category_tree[n].children
           /\ IndexFits(items_sorted', items')
           /\ LinksFit(category_tree', items') ]_vars

\* The round trip of C20 through a restart alone.
RestartRoundTrip ==
  [][ (\E quit \in BOOLEAN : restart(quit))
        => /\ Len(items') = Len(items)
           /\ \A k \in 1..Len(items) :
                [ items'[k] EXCEPT !.id = 0 ] = [ items[k] EXCEPT !.id = 0 ]
           /\ DOMAIN category_tree' = NodeIds
           /\ \A n \in NodeIds :
                /\ category_tree'[n].name = category_tree[n].name
                /\ category_tree'[n].children = category_tree[n].children
           /\ IndexFits(items_sorted', items')
           /\ LinksFit(category_tree', items') ]_vars

\* C21: load_inventory of a missing file, or of a file that is not JSON,
\* reports the condition without raising, and afterwards the store holds no
\* items and the index no entries.
C21_FailedLoadLeavesEmpty ==
  [][ \A file \in { MissingFile, MalformedFile } : \A quit \in BOOLEAN :
        load_inventory(file, quit)
          => /\ last'.res \in { "no_file", "decode_error" }
             /\ items' = <<>>
             /\ items_sorted' = <<>> ]_vars

\* C22: after a load_inventory that succeeds, whatever the manager held
\* before, the index has exactly one entry per loaded item, is sorted by
\* lowercased name, each entry holds its item's position in the store, and
\* the tree links exactly the loaded items that have a category.
C22_LoadRebuildsIndex ==
  [][ \A file \in LoadFiles : \A quit \in BOOLEAN :
        load_inventory(file, quit) /\ last'.res = "ok"
          => /\ IndexFits(items_sorted', items')
             /\ LinksFit(category_tree', items') ]_vars

\* C23: a load_inventory that reports an error while processing the items
\* of the file leaves no item of the file loaded: the store is empty, and no
\* index entry and no tree link was added for an item of the file.
C23_LoadAllOrNothing ==
  [][ \A file \in LoadFiles : \A quit \in BOOLEAN :
        load_inventory(file, quit) /\ last'.res = "load_error"
          => /\ items' = <<>>
             /\ items_sorted' = items_sorted
             /\ \A n \in DOMAIN category_tree' : category_tree'[n].items = <<>> ]_vars

\* The node n is reached from the root by following, for each segment of
\* path in order, a child whose name equals the segment ignoring case.
Follows(tree, path, n) ==
  /\ Len(n) = Len(path)
  /\ \A i \in 1..Len(path) :
       LET parent == SubSeq(n, 1, i - 1)
       IN  /\ parent \in DOMAIN tree
           /\ n[i] \in Range(tree[parent].children)
           /\ Lower(n[i]) = Lower(path[i])

\* C24: find_category_node(path) returns the root for the empty path;
\* otherwise the node reached from the root by following for each segment
\* the child whose name equals it ignoring case, and None when some segment
\* has no such child; the tree is left as it was.
C24_FindFollowsPath ==
  [][ \A path \in FindPaths :
        FindCategoryNode(path)
          => /\ category_tree' = category_tree
             /\ path = <<>> => last'.res = "node" /\ last'.out = <<>>
             /\ last'.res = "node"
                  => \A n \in NodeIds : Follows(category_tree, path, n) <=> n = last'.out
             /\ last'.res = "None"
                  => \A n \in NodeIds : ~ Follows(category_tree, path, n) ]_vars

\* "f" > "l" was looked up and the node F > L returned.
C24_Witness ==
  /\ last.op = "find_category_node"
  /\ last.res = "node"
  /\ last.arg = << <<102>>, <<108>> >>
  /\ last.out = << <<70>>, <<76>> >>

\* The nodes of the subtree of n in depth-first pre-order, children in the
\* order of the children list.
RECURSIVE PreOrder(_, _)
RECURSIVE PreOrderFrom(_, _, _)
PreOrder(tree, n) == << n >> \o PreOrderFrom(tree, ChildNodes(tree, n), 1)

PreOrderFrom(tree, kids, k) ==
  IF k > Len(kids) THEN <<>>
  ELSE PreOrder(tree, kids[k]) \o PreOrderFrom(tree, kids, k + 1)

\* The lines of the nodes ns, each indented by its depth.
Indented(ns) == [ k \in 1..Len(ns) |-> << ns[k], 2 * (Len(ns[k]) - 1) >> ]

\* C25: display_category_tree prints every node but the root exactly once,
\* whatever its name, in depth-first pre-order with siblings in insertion
\* order, each line indented by the depth of its node.
C25_TreeShownPreOrder ==
  [][ display_category_tree
        => last'.out = Indented(Tail(PreOrder(category_tree, <<>>))) ]_vars

\* The lines display_category_tree prints are those of C25 without the
\* nodes named ROOT.
TreeShownButRootNames ==
  [][ display_category_tree
        => last'.out = Indented(SelectSeq(Tail(PreOrder(category_tree, <<>>)),
                                          LAMBDA n : category_tree[n].name # RootName)) ]_vars

\* The nodes of the subtree below the nodes of level, these included, level
\* by level; and the entries of their items lists in that order.
RECURSIVE ChildrenOf(_, _, _)
ChildrenOf(tree, level, k) ==
  IF k > Len(level) THEN <<>>
  ELSE ChildNodes(tree, level[k]) \o ChildrenOf(tree, level, k + 1)

RECURSIVE LevelOrder(_, _)
LevelOrder(tree, level) ==
  IF level = <<>> THEN <<>>
  ELSE level \o LevelOrder(tree, ChildrenOf(tree, level, 1))

RECURSIVE ItemsOf(_, _, _)
ItemsOf(tree, ns, k) ==
  IF k > Len(ns) THEN <<>> ELSE tree[ns[k]].items \o ItemsOf(tree, ns, k + 1)

C27_LookupsAgree ==
  \A name \in SortNames \cup { <<97, 98>> } :
    /\ binary_search(items_sorted, name).index = get_item_by_name_old(items, name)
    /\ get_item_by_name(items_sorted, name) = get_item_by_name_old(items, name)
    /\ Cardinality(Matches(name)) <= 1

\* The index sorted is sorted by lowercased name.
SortedByName(sorted) ==
  \A k \in 1..(Len(sorted) - 1) : ~ StrLess(Lower(sorted[k + 1][1]), Lower(sorted[k][1]))

\* What C28 says of a call of binary_insertion(name) that left res and out.
InsertionPoint(name, res, out) ==
  /\ res = "ok"
  /\ IF \E k \in 1..Len(items_sorted) : Lower(items_sorted[k][1]) = Lower(name)
     THEN out = << -1 >>
     ELSE /\ Len(out) = 1
          /\ out[1] \in 0..Len(items_sorted)
          /\ \A k \in 1..out[1] : StrLess(Lower(items_sorted[k][1]), Lower(name))
          /\ \A k \in (out[1] + 1)..Len(items_sorted) :
               StrLess(Lower(name), Lower(items_sorted[k][1]))

\* C28: on an index sorted by lowercased name, binary_insertion(name)
\* returns -1 when an entry has that name ignoring case, otherwise the one
\* position before which all names are smaller and from which on all are
\* larger; it leaves the index as it was.
C28_InsertionPoint ==
  [][ \A name \in InsertNames : \A quit \in BOOLEAN :
        BinaryInsertion(name, quit) /\ SortedByName(items_sorted)
          => /\ items_sorted' = items_sorted
             /\ InsertionPoint(name, last'.res, last'.out) ]_vars

\* C28 for the calls in which execution continues after breakpoint().
InsertionPointWhenContinued ==
  [][ \A name \in InsertNames :
        BinaryInsertion(name, FALSE) /\ SortedByName(items_sorted)
          => /\ items_sorted' = items_sorted
             /\ InsertionPoint(name, last'.res, last'.out) ]_vars

\* The list after is in non-decreasing order and holds the values of the
\* list before, each as often.
SortedFrom(before, after) ==
  /\ Len(after) = Len(before)
  /\ \A k \in 1..(Len(after) - 1) : after[k] <= after[k + 1]
  /\ \A v \in Range(before) \cup Range(after) :
       Cardinality({ k \in 1..Len(after) : after[k] = v })
         = Cardinality({ k \in 1..Len(before) : before[k] = v })

\* C29: the heap_sort of heap-sort.py leaves every list in non-decreasing
\* order and holding the values it held, none lost and none duplicated.
C29_HeapSortSorts ==
  [][ /\ HeapSort => SortedFrom(list, list')
      /\ HeapTest => SortedFrom(TestList, list') ]_vars

\* C30: the queue is first-in first-out.  A dequeue returns the oldest
\* element enqueued and not yet dequeued; len is the number of enqueues
\* minus that of the dequeues that returned; is_empty holds exactly when
\* that number is 0; first returns what the next dequeue would return and
\* removes nothing.
C30_FirstInFirstOut ==
  [][ /\ \A e \in QueueElements : QueueEnqueue(e) => last'.res = "ok"
      /\ QueueDequeue /\ pending # <<>>
           => last'.res = "ok" /\ last'.out = << Head(pending) >>
      /\ QueueFirst /\ pending # <<>>
           => /\ last'.res = "ok"
              /\ last'.out = << Head(pending) >>
              /\ last'.out = << dequeue(objects', Q1').answer >>
              /\ UNCHANGED << objects, Q1 >>
      /\ QueueLen => last'.out = << Len(pending) >>
      /\ QueueIsEmpty => last'.out = << pending = <<>> >>
      /\ len(Q1') = Len(pending')
      /\ is_empty(Q1') <=> pending' = <<>> ]_vars

\* 1, 2 and 1 were enqueued in this order and a dequeue returned the first 1.
C30_Witness ==
  /\ last.op = "dequeue"
  /\ last.res = "ok"
  /\ last.out = << 1 >>
  /\ pending = << 2, 1 >>

\* The elements of the first n nodes reached from the node ref, and the
\* last node reached from it.
RECURSIVE ElementsFrom(_, _, _)
ElementsFrom(nodes, ref, n) ==
  IF n = 0 \/ ref = None THEN <<>>
  ELSE << nodes[ref]._element >> \o ElementsFrom(nodes, nodes[ref]._next, n - 1)

RECURSIVE LastFrom(_, _)
LastFrom(nodes, ref) ==
  IF nodes[ref]._next = None THEN ref ELSE LastFrom(nodes, nodes[ref]._next)

\* The queue Q is as enqueue and dequeue leave a queue: empty, or its tail
\* the last node reached from its head.
WellFormed(nodes, Q) ==
  IF is_empty(Q) THEN TRUE
  ELSE /\ Q._head # None
       /\ Q._tail # None
       /\ LastFrom(nodes, Q._head) = Q._tail

\* C31: Q1.concatenate(Q2) leaves Q1 holding its elements followed by those
\* of Q2, its size their sum, Q2 empty and Q1 well formed, whether or not
\* either queue is empty; an enqueue or dequeue on Q1 afterwards does what
\* it does on a queue built by enqueues alone.
C31_ConcatenateJoins ==
  [][ /\ QueueConcatenate
           => /\ last'.res = "ok"
              /\ len(Q1') = Len(pending) + Len(pending2)
              /\ ElementsFrom(objects', Q1'._head, len(Q1')) = pending \o pending2
              /\ Q2' = LinkedQueue
              /\ WellFormed(objects', Q1')
      /\ \A e \in QueueElements :
           QueueEnqueue(e)
             => /\ last'.res = "ok"
                /\ ElementsFrom(objects', Q1'._head, len(Q1')) = Append(pending, e)
      /\ QueueDequeue /\ pending # <<>>
           => last'.res = "ok" /\ last'.out = << Head(pending) >> ]_vars

\* C31 for the calls of concatenate with elements in Q2.
ConcatenateJoinsNonEmpty ==
  [][ QueueConcatenate /\ pending2 # <<>> /\ WellFormed(objects, Q1)
        => /\ last'.res = "ok"
           /\ len(Q1') = Len(pending) + Len(pending2)
           /\ ElementsFrom(objects', Q1'._head, len(Q1')) = pending \o pending2
           /\ Q2' = LinkedQueue
           /\ WellFormed(objects', Q1') ]_vars

\* The nodes of the subtree of start.
SubtreeNodes(tree, start) ==
  { n \in DOMAIN tree : Len(n) >= Len(start) /\ SubSeq(n, 1, Len(start)) = start }

\* The loop w has taken every node of the subtree it started from, each
\* once: from the stack, or as current_node of the queue loop (the node of
\* the path first, the others from the queue).
TakenOnce(w) ==
  /\ \A j, k \in 1..Len(w.taken) : j # k => w.taken[j] # w.taken[k]
  /\ Range(w.taken) = SubtreeNodes(category_tree, w.start)

\* C32: on every category tree the loop of display_category_tree and the
\* loop of the filtered display_inventory end, and have then taken each node
\* of the tree, or of the subtree of the path, exactly once.
C32_LoopsEnd ==
  /\ [][ Running /\ walk'.at = "done" => TakenOnce(walk') ]_vars
  /\ (Running ~> walk.at = "done")

\* The loop of display_inventory(["F"]) has ended on the tree F, F > A,
\* F > B, F > A > C, after four nodes.
C32_Witness ==
  /\ walk.at = "done"
  /\ walk.start = << <<70>> >>
  /\ Len(walk.taken) = 4
  /\ Cardinality(NodeIds) = 5

\* Taken iteration by iteration, the loops give what display_category_tree
\* and display_inventory give as one call.
WalkAgrees ==
  [][ Running /\ walk'.at = "done"
        => IF walk.at = "stack"
           THEN walk'.lines = TreeLoop(category_tree, << << <<>>, 0 >> >>, <<>>)
           ELSE walk'.lines = Gather(category_tree, walk.start,
                                     Allocated(<<>>, LinkedQueue), <<>>) ]_vars

\* C33: first() and dequeue() on an empty queue raise Empty and leave the
\* queue as it was: empty, of size 0, head and tail unset; an enqueue
\* afterwards succeeds and its element is the one first and dequeue return.
C33_EmptyRaises ==
  [][ (QueueFirst \/ QueueDequeue) /\ pending = <<>>
        => /\ last'.res = "Empty"
           /\ Q1 = LinkedQueue
           /\ Q1' = LinkedQueue
           /\ objects' = objects
           /\ \A e \in QueueElements :
                LET later == enqueue(objects', Q1', e)
                IN  /\ later.res = "ok"
                    /\ first(later.nodes, later.Q).answer = e
                    /\ dequeue(later.nodes, later.Q).res = "ok"
                    /\ dequeue(later.nodes, later.Q).answer = e
                    /\ dequeue(later.nodes, later.Q).Q = LinkedQueue ]_vars

\* dequeue raised Empty on a queue that had held an element before.
C33_Witness ==
  /\ last.op = "dequeue"
  /\ last.res = "Empty"
  /\ objects # <<>>
  /\ Q1 = LinkedQueue
  /\ pending = <<>>

=============================================================================
